---- MODULE Spec2Model ----
(***************************************************************************)
(* SurgeScript runtime: the program pool (runtime/program_pool.c) and the  *)
(* virtual machine that owns it (runtime/vm.c).                            *)
(*                                                                         *)
(* The pool is two uthash tables: pool->hash, keyed by the 64-bit function *)
(* signature of (object_name, program_name), holding the program of each   *)
(* function, and pool->meta, keyed by object_name, holding the list of the *)
(* program names of each object.  Every public function of the pool is one *)
(* action; the read-only ones (get, exists, shallowcheck, is_compiled) are *)
(* operators over the current state.                                       *)
(***************************************************************************)
EXTENDS Integers, Sequences, FiniteSets, Bags, TLC

(* ------------------------------------------------------------------ *)
(* The inputs the model draws from                                     *)
(* ------------------------------------------------------------------ *)

\* object (class) names handed to the pool; "Object" is the common base
Classes == {"Object", "Dog", "Cat"}

\* program (function) names handed to the pool
Names == {"greet", "toString"}

\* the functions the callers define on each object
NamesOf(object_name) == IF object_name = "Dog" THEN Names ELSE {"greet"}

\* how many distinct surgescript_program_t the callers create
NumPrograms == 3

\* a program is known by its address; NULL is the null pointer
Programs == 1..NumPrograms

NULL == 0

VARIABLES
    hash,       \* pool->hash: a bag of hashpairs [signature, program]
    meta,       \* pool->meta: object_name -> sequence of program names
    destroyed,  \* per program: how often surgescript_program_destroy ran on it
    status,     \* "running", "fatal" once ssfatal ended the process, or
                \* "destroyed" once the pool was destroyed
    last,       \* the call that produced this state
    ret,        \* what that call returned
    visited,    \* the program names the callback of that call was given, in order
    freed,      \* the programs that call gave to surgescript_program_destroy, in order
    registered, \* history: (object, name) -> the program the calls so far have
                \* left registered there
    putOrder,   \* history, kept by SpecOrder: per object, its registered names in
                \* the order of the calls that registered them
    firstPut,   \* history, kept by SpecOrder: per object, the names ever
                \* registered, in the order of their first registration
    handed,     \* history: per program, how often a put or replace was called
                \* with it (2 standing for "more than once")
    vmState,    \* the virtual machine: "created", "launched" or "destroyed"
    object_manager, \* vm->object_manager: handle of each live object -> handle
                \* of its parent (NULL for an object without parent)
    is_killed,  \* the objects that were sent the kill signal -> how many
                \* traversals each has been through since
    vmLast,     \* the call on the virtual machine that produced this state:
                \* what it returned, the objects whose update was called, in
                \* order, and how many traversals it started
    released,   \* the parts of the virtual machine destroyed so far, in order
    cprograms,  \* the programs surgescript_cprogram_create made -> the number
                \* of parameters each was made with
    renvs,      \* the runtime environments in existence: address -> the
                \* struct surgescript_renv_t there
    tmp_store,  \* the arrays of temporary variables in existence: address ->
                \* the values of the variables
    renvLast,   \* the call on a runtime environment that produced this state
    array_heap, \* the heap of the Array object: the cells allocated, address
                \* -> value, and the address the next cell is allocated at
    arrLast     \* the call on the Array object that produced this state: its
                \* parameters, what it returned, the length and the elements
                \* it found, whether its ssasserts held, the calls of
                \* partition() it made, whether it allocated the cell the
                \* call before it had freed, and whether it is a shift that
                \* follows an unshift

vars == <<hash, meta, destroyed, status, last, ret, visited, freed,
          registered, putOrder, firstPut, handed,
          vmState, object_manager, is_killed, vmLast, released, cprograms,
          renvs, tmp_store, renvLast, array_heap, arrLast>>

\* the state of the virtual machine outside its program pool
vmvars == <<vmState, object_manager, is_killed, vmLast, released, cprograms>>

\* the runtime environments
envvars == <<renvs, tmp_store, renvLast>>

\* what is neither the program pool nor the virtual machine that owns it
libvars == <<envvars, array_heap, arrLast>>

(* ------------------------------------------------------------------ *)
(* Function signatures                                                 *)
(* ------------------------------------------------------------------ *)

\* the byte content of a string, as hashlittle2 reads it: here one number
\* per string of the model, different strings having different content
StrTable == <<"Object", "Dog", "Cat", "greet", "toString", "update">>

StrKey(s) == CHOOSE i \in 1..Len(StrTable) : StrTable[i] = s

\* hashlittle2(key, length, &pc, &pb): pc and pb are seeds on entry and
\* the two 32-bit hashes on return (Jenkins' lookup3, not in this file)
hashlittle2(key, pc, pb) ==
    [pc |-> (31 * pc + StrKey(key)) % 65536,
     pb |-> (37 * pb + StrKey(key) + 1) % 65536]

\* mutant: both strings are hashed from the seeds 0, 0 and the hashes added
generate_signature_unseeded(object_name, program_name) ==
    LET h1 == hashlittle2(object_name, 0, 0)
        h2 == hashlittle2(program_name, 0, 0)
    IN  [lo |-> (h1.pc + h2.pc) % 65536, hi |-> (h1.pb + h2.pb) % 65536]

\* (uint64_t)pc | (((uint64_t)pb) << 32), kept as its two 32-bit halves
generate_signature(object_name, program_name) ==
    LET h1 == hashlittle2(object_name, 0, 0)
        h2 == hashlittle2(program_name, h1.pc, h1.pb)
    IN  [lo |-> h2.pc, hi |-> h2.pb]

(* ------------------------------------------------------------------ *)
(* uthash on pool->hash                                                *)
(* ------------------------------------------------------------------ *)

\* what HASH_FIND leaves in item_ptr when nothing is found
NullPair == [signature |-> [lo |-> -1, hi |-> -1], program |-> NULL]

HASH_FIND_ITEM_BY_SIGNATURE(head, signature) ==
    LET found == {item \in BagToSet(head) : item.signature = signature}
    IN  IF found = {} THEN NullPair ELSE CHOOSE item \in found : TRUE

\* HASH_ADD does not look for the key: adding a key twice keeps both items
HASH_ADD_ITEM_WITH_SIGNATURE(head, signature, program) ==
    head (+) SetToBag({[signature |-> signature, program |-> program]})

HASH_DEL(head, pair) == head (-) SetToBag({pair})

\* surgescript_program_destroy(program): counted, 2 standing for "more than once"
surgescript_program_destroy(d, program) ==
    [d EXCEPT ![program] = IF @ < 2 THEN @ + 1 ELSE @]

(* ------------------------------------------------------------------ *)
(* metadata: the list of program names of each object                  *)
(* ------------------------------------------------------------------ *)

insert_metadata(m, object_name, program_name) ==
    LET m1 == IF object_name \in DOMAIN m THEN m ELSE m @@ (object_name :> <<>>)
    IN  [m1 EXCEPT ![object_name] = Append(@, program_name)]

\* ssarray_remove(array, index): index is 0-based
ssarray_remove(array, index) ==
    [i \in 1..(Len(array) - 1) |-> IF i <= index THEN array[i] ELSE array[i + 1]]

\* mutant: a name that is not in the list makes the first name go
remove_metadata_without_test(m, object_name, program_name) ==
    IF object_name \in DOMAIN m /\ Len(m[object_name]) > 0
    THEN LET names == m[object_name]
             hits  == {i \in 0..(Len(names) - 1) : names[i + 1] = program_name}
             index == IF hits = {} THEN 0
                      ELSE CHOOSE i \in hits : \A j \in hits : i <= j
         IN  [m EXCEPT ![object_name] = ssarray_remove(names, index)]
    ELSE m

remove_metadata(m, object_name, program_name) ==
    IF object_name \in DOMAIN m
    THEN LET names == m[object_name]
             hits  == {i \in 0..(Len(names) - 1) : names[i + 1] = program_name}
             index == IF hits = {} THEN -1
                      ELSE CHOOSE i \in hits : \A j \in hits : i <= j
         IN  IF index >= 0
             THEN [m EXCEPT ![object_name] = ssarray_remove(names, index)]
             ELSE m
    ELSE m

\* mutant: the lists of all objects go, as in clear_metadata
remove_object_metadata_of_all(m, object_name) ==
    [o \in {} |-> <<>>]

remove_object_metadata(m, object_name) ==
    [o \in DOMAIN m \ {object_name} |-> m[o]]

\* mutant: the loop runs from the last name down to the first
traverse_metadata_backwards(m, object_name) ==
    IF object_name \in DOMAIN m
    THEN [i \in 1..Len(m[object_name]) |->
             m[object_name][Len(m[object_name]) + 1 - i]]
    ELSE <<>>

\* the calls of the callback, in order: one per program name of object_name
traverse_metadata(m, object_name) ==
    IF object_name \in DOMAIN m
    THEN [i \in 1..Len(m[object_name]) |-> m[object_name][i]]
    ELSE <<>>

(* ------------------------------------------------------------------ *)
(* read-only functions of the pool                                     *)
(* ------------------------------------------------------------------ *)

\* mutant: shallowcheck falls back to "Object" the way get does
shallowcheck_with_fallback(object_name, program_name) ==
    \/ HASH_FIND_ITEM_BY_SIGNATURE(hash,
           generate_signature(object_name, program_name)) # NullPair
    \/ HASH_FIND_ITEM_BY_SIGNATURE(hash,
           generate_signature("Object", program_name)) # NullPair

surgescript_programpool_shallowcheck(object_name, program_name) ==
    HASH_FIND_ITEM_BY_SIGNATURE(hash, generate_signature(object_name, program_name))
        # NullPair

\* mutant: the common base is looked up first
get_base_first(object_name, program_name) ==
    LET base == HASH_FIND_ITEM_BY_SIGNATURE(hash,
                    generate_signature("Object", program_name))
    IN  IF base = NullPair
        THEN LET pair == HASH_FIND_ITEM_BY_SIGNATURE(hash,
                             generate_signature(object_name, program_name))
             IN  IF pair = NullPair THEN NULL ELSE pair.program
        ELSE base.program

\* mutant: no second lookup in the common base
get_exact_only(object_name, program_name) ==
    LET pair == HASH_FIND_ITEM_BY_SIGNATURE(hash,
                    generate_signature(object_name, program_name))
    IN  IF pair = NullPair THEN NULL ELSE pair.program

surgescript_programpool_get(object_name, program_name) ==
    LET pair == HASH_FIND_ITEM_BY_SIGNATURE(hash,
                    generate_signature(object_name, program_name))
    IN  IF pair = NullPair
        THEN LET base == HASH_FIND_ITEM_BY_SIGNATURE(hash,
                             generate_signature("Object", program_name))
             IN  IF base = NullPair THEN NULL ELSE base.program
        ELSE pair.program

surgescript_programpool_exists(object_name, program_name) ==
    surgescript_programpool_get(object_name, program_name) # NULL

\* mutant: an object that has a list of names is compiled, even an empty list
is_compiled_known_object(object_name) == object_name \in DOMAIN meta

surgescript_programpool_is_compiled(object_name) ==
    object_name \in DOMAIN meta /\ Len(meta[object_name]) > 0

(* ------------------------------------------------------------------ *)
(* The calls                                                           *)
(* ------------------------------------------------------------------ *)

Call(op, object_name, program_name, program) ==
    [op |-> op, object_name |-> object_name, program_name |-> program_name,
     program |-> program]

VMCall(op, r, traversed, ticks) ==
    [op |-> op, ret |-> r, traversed |-> traversed, ticks |-> ticks]

\* surgescript_vm_create(): a stack, a program pool as
\* surgescript_programpool_create() leaves it, and an object manager
\* without objects
Init ==
    /\ hash = EmptyBag
    /\ meta = <<>>
    /\ destroyed = [p \in Programs |-> 0]
    /\ status = "running"
    /\ last = Call("create", "", "", NULL)
    /\ ret = TRUE
    /\ visited = <<>>
    /\ freed = <<>>
    /\ registered = <<>>
    /\ putOrder = [o \in Classes |-> <<>>]
    /\ firstPut = [o \in Classes |-> <<>>]
    /\ handed = [p \in Programs |-> 0]
    /\ vmState = "created"
    /\ object_manager = <<>>
    /\ is_killed = <<>>
    /\ vmLast = VMCall("create", TRUE, <<>>, 0)
    /\ released = <<>>
    /\ cprograms = <<>>
    /\ renvs = <<>>
    /\ tmp_store = <<>>
    /\ renvLast = [op |-> "none", env |-> NULL, from |-> NULL]
    /\ array_heap = [mem |-> <<>>, ptr |-> 0]
    /\ arrLast = [op |-> "none", index |-> 0, value |-> 0, ret |-> <<>>,
                  length |-> 0, elements |-> <<>>, asserted |-> TRUE,
                  partitions |-> <<>>, reused |-> FALSE, undoes |-> FALSE]

\* mutant: put without the shallowcheck
programpool_put_unchecked(object_name, program_name, program) ==
    /\ hash' = HASH_ADD_ITEM_WITH_SIGNATURE(hash,
                   generate_signature(object_name, program_name), program)
    /\ meta' = insert_metadata(meta, object_name, program_name)
    /\ ret' = TRUE
    /\ status' = status

\* mutant: put takes a function the object inherits for a duplicate
programpool_put_checking_exists(object_name, program_name, program) ==
    IF ~surgescript_programpool_exists(object_name, program_name)
    THEN /\ hash' = HASH_ADD_ITEM_WITH_SIGNATURE(hash,
                        generate_signature(object_name, program_name), program)
         /\ meta' = insert_metadata(meta, object_name, program_name)
         /\ ret' = TRUE
         /\ status' = status
    ELSE /\ status' = "fatal"
         /\ ret' = FALSE
         /\ UNCHANGED <<hash, meta>>

\* the body of surgescript_programpool_put
programpool_put(object_name, program_name, program) ==
    IF ~surgescript_programpool_shallowcheck(object_name, program_name)
    THEN /\ hash' = HASH_ADD_ITEM_WITH_SIGNATURE(hash,
                        generate_signature(object_name, program_name), program)
         /\ meta' = insert_metadata(meta, object_name, program_name)
         /\ ret' = TRUE
         /\ status' = status
    ELSE /\ status' = "fatal"   \* ssfatal("Runtime Error: duplicate function ...")
         /\ ret' = FALSE
         /\ UNCHANGED <<hash, meta>>

\* mutant: replace hands every program to put
programpool_replace_as_put(object_name, program_name, program) ==
    /\ programpool_put(object_name, program_name, program)
    /\ freed' = <<>>
    /\ UNCHANGED destroyed

\* mutant: replace lists the name again when it replaces a program
programpool_replace_reinserts(object_name, program_name, program) ==
    LET pair == HASH_FIND_ITEM_BY_SIGNATURE(hash,
                    generate_signature(object_name, program_name))
    IN  IF pair # NullPair
        THEN /\ destroyed' = surgescript_program_destroy(destroyed, pair.program)
             /\ freed' = <<pair.program>>
             /\ hash' = HASH_ADD_ITEM_WITH_SIGNATURE(HASH_DEL(hash, pair),
                            pair.signature, program)
             /\ meta' = insert_metadata(meta, object_name, program_name)
             /\ ret' = TRUE
             /\ UNCHANGED status
        ELSE /\ programpool_put(object_name, program_name, program)
             /\ freed' = <<>>
             /\ UNCHANGED destroyed

\* the body of surgescript_programpool_replace
programpool_replace(object_name, program_name, program) ==
    LET pair == HASH_FIND_ITEM_BY_SIGNATURE(hash,
                    generate_signature(object_name, program_name))
    IN  IF pair # NullPair
        THEN /\ destroyed' = surgescript_program_destroy(destroyed, pair.program)
             /\ freed' = <<pair.program>>
             /\ hash' = HASH_ADD_ITEM_WITH_SIGNATURE(HASH_DEL(hash, pair),
                            pair.signature, program)
             /\ ret' = TRUE
             /\ UNCHANGED <<meta, status>>
        ELSE /\ programpool_put(object_name, program_name, program)
             /\ freed' = <<>>
             /\ UNCHANGED destroyed

\* mutant: the program is destroyed and its hashpair stays in the table
delete_program_keeps_pair(st, object_name, program_name) ==
    LET pair == HASH_FIND_ITEM_BY_SIGNATURE(st.hash,
                    generate_signature(object_name, program_name))
    IN  IF pair # NullPair
        THEN [hash |-> st.hash,
              destroyed |-> surgescript_program_destroy(st.destroyed, pair.program),
              freed |-> Append(st.freed, pair.program)]
        ELSE st

\* delete_program(program_name, data), data = {pool, object_name};
\* st is what it changes: the hash table and the programs destroyed
delete_program(st, object_name, program_name) ==
    LET pair == HASH_FIND_ITEM_BY_SIGNATURE(st.hash,
                    generate_signature(object_name, program_name))
    IN  IF pair # NullPair
        THEN [hash |-> HASH_DEL(st.hash, pair),
              destroyed |-> surgescript_program_destroy(st.destroyed, pair.program),
              freed |-> Append(st.freed, pair.program)]
        ELSE st

\* mutant: each deletion makes the loop step over the name that follows
RECURSIVE foreach_delete_program_skipping(_, _, _)
foreach_delete_program_skipping(st, object_name, names) ==
    IF names = <<>> THEN st
    ELSE foreach_delete_program_skipping(
             delete_program(st, object_name, Head(names)), object_name,
             IF Len(names) >= 2 THEN Tail(Tail(names)) ELSE <<>>)

\* surgescript_programpool_foreach_ex(pool, object_name, data, delete_program):
\* delete_program on each of the names traverse_metadata gives the callback
RECURSIVE foreach_delete_program(_, _, _)
foreach_delete_program(st, object_name, names) ==
    IF names = <<>> THEN st
    ELSE foreach_delete_program(delete_program(st, object_name, Head(names)),
                                object_name, Tail(names))

\* the body of surgescript_programpool_purge
programpool_purge(object_name) ==
    LET st == foreach_delete_program(
                  [hash |-> hash, destroyed |-> destroyed, freed |-> <<>>],
                  object_name, traverse_metadata(meta, object_name))
    IN  /\ hash' = st.hash
        /\ destroyed' = st.destroyed
        /\ freed' = st.freed
        /\ meta' = remove_object_metadata(meta, object_name)

\* the body of surgescript_programpool_delete
programpool_delete(object_name, program_name) ==
    LET st == delete_program(
                  [hash |-> hash, destroyed |-> destroyed, freed |-> <<>>],
                  object_name, program_name)
    IN  /\ hash' = st.hash
        /\ destroyed' = st.destroyed
        /\ freed' = st.freed
        /\ meta' = remove_metadata(meta, object_name, program_name)

\* clear_metadata(pool): every record of pool->meta is deleted
clear_metadata(m) == [o \in {} |-> <<>>]

\* mutant: the hashpairs are deleted and freed, their programs are not destroyed
RECURSIVE HASH_ITER_destroy_pairs_only(_)
HASH_ITER_destroy_pairs_only(st) ==
    IF BagToSet(st.hash) = {} THEN {st}
    ELSE UNION {HASH_ITER_destroy_pairs_only(
                    [hash |-> HASH_DEL(st.hash, it),
                     destroyed |-> st.destroyed,
                     freed |-> st.freed]) : it \in BagToSet(st.hash)}

\* the HASH_ITER loop of surgescript_programpool_destroy: each hashpair is
\* deleted from the table and its program destroyed.  uthash visits the
\* pairs in the order they were added, which the bag does not keep: the
\* result is the set of outcomes over all orders.
RECURSIVE HASH_ITER_destroy(_)
HASH_ITER_destroy(st) ==
    IF BagToSet(st.hash) = {} THEN {st}
    ELSE UNION {HASH_ITER_destroy(
                    [hash |-> HASH_DEL(st.hash, it),
                     destroyed |-> surgescript_program_destroy(st.destroyed, it.program),
                     freed |-> Append(st.freed, it.program)]) : it \in BagToSet(st.hash)}

\* the body of surgescript_programpool_destroy
programpool_destroy ==
    \E st \in HASH_ITER_destroy([hash |-> hash, destroyed |-> destroyed, freed |-> <<>>]) :
        /\ hash' = st.hash
        /\ destroyed' = st.destroyed
        /\ freed' = st.freed
        /\ meta' = clear_metadata(meta)

\* the pool holds the program in some hashpair
InPool(program) == \E item \in BagToSet(hash) : item.program = program

\* A caller hands over a program it holds: one not destroyed yet.  A program
\* is the code of one function: it is handed to the pool under one pair
\* (object_name, program_name), possibly more than once.  Programs are
\* created one after the other, each after the one before it went to the
\* pool, so that addresses are handed out in increasing order.
MayHand(object_name, program_name, program) ==
    /\ destroyed[program] = 0
    /\ \A q \in Programs : q < program => (InPool(q) \/ destroyed[q] > 0)
    /\ \A item \in BagToSet(hash) :
          item.program = program =>
              item.signature = generate_signature(object_name, program_name)

\* the history of registrations without the pairs of keys
Unregister(keys) == [k \in DOMAIN registered \ keys |-> registered[k]]

Put(object_name, program_name, program) ==
    /\ status = "running"
    /\ MayHand(object_name, program_name, program)
    /\ programpool_put(object_name, program_name, program)
    /\ last' = Call("put", object_name, program_name, program)
    /\ handed' = [handed EXCEPT ![program] = IF @ < 2 THEN @ + 1 ELSE @]
    /\ visited' = <<>>
    /\ freed' = <<>>
    /\ registered' = IF ret'
                     THEN (<<object_name, program_name>> :> program) @@ registered
                     ELSE registered
    /\ UNCHANGED destroyed

Replace(object_name, program_name, program) ==
    /\ status = "running"
    /\ MayHand(object_name, program_name, program)
    /\ programpool_replace(object_name, program_name, program)
    /\ last' = Call("replace", object_name, program_name, program)
    /\ handed' = [handed EXCEPT ![program] = IF @ < 2 THEN @ + 1 ELSE @]
    /\ visited' = <<>>
    /\ registered' = IF ret'
                     THEN (<<object_name, program_name>> :> program) @@ registered
                     ELSE registered

Delete(object_name, program_name) ==
    /\ status = "running"
    /\ programpool_delete(object_name, program_name)
    /\ last' = Call("delete", object_name, program_name, NULL)
    /\ ret' = TRUE
    /\ visited' = <<>>
    /\ registered' = Unregister({<<object_name, program_name>>})
    /\ UNCHANGED <<status, handed>>

Purge(object_name) ==
    /\ status = "running"
    /\ programpool_purge(object_name)
    /\ last' = Call("purge", object_name, "", NULL)
    /\ ret' = TRUE
    /\ visited' = <<>>
    /\ registered' = Unregister({k \in DOMAIN registered : k[1] = object_name})
    /\ UNCHANGED <<status, handed>>

\* surgescript_programpool_destroy: the pool is gone afterwards
Destroy ==
    /\ status = "running"
    /\ programpool_destroy
    /\ status' = "destroyed"
    /\ last' = Call("destroy", "", "", NULL)
    /\ ret' = TRUE
    /\ visited' = <<>>
    /\ registered' = Unregister(DOMAIN registered)
    /\ UNCHANGED handed

\* surgescript_programpool_foreach: the callback records the names it is given
Foreach(object_name) ==
    /\ status = "running"
    /\ visited' = traverse_metadata(meta, object_name)
    /\ last' = Call("foreach", object_name, "", NULL)
    /\ ret' = TRUE
    /\ freed' = <<>>
    /\ UNCHANGED <<hash, meta, destroyed, status, registered, handed>>

\* surgescript_programpool_foreach_ex, with the same recording callback
ForeachEx(object_name) ==
    /\ status = "running"
    /\ visited' = traverse_metadata(meta, object_name)
    /\ last' = Call("foreach_ex", object_name, "", NULL)
    /\ ret' = TRUE
    /\ freed' = <<>>
    /\ UNCHANGED <<hash, meta, destroyed, status, registered, handed>>

\* The calls that change the pool, on every pair of the model.
Next ==
    \/ \E o \in Classes : \E n \in NamesOf(o), p \in Programs :
            Put(o, n, p) /\ UNCHANGED <<putOrder, firstPut, vmvars, libvars>>
    \/ \E o \in Classes : \E n \in NamesOf(o), p \in Programs :
            Replace(o, n, p) /\ UNCHANGED <<putOrder, firstPut, vmvars, libvars>>
    \/ \E o \in Classes : \E n \in NamesOf(o) :
            Delete(o, n) /\ UNCHANGED <<putOrder, firstPut, vmvars, libvars>>
    \/ \E o \in Classes : Purge(o) /\ UNCHANGED <<putOrder, firstPut, vmvars, libvars>>
    \/ Destroy /\ UNCHANGED <<putOrder, firstPut, vmvars, libvars>>

Spec == Init /\ [][Next]_vars

(* ------------------------------------------------------------------ *)
(* The same calls and the two enumerations, on one object and the      *)
(* base, with the history of the order of the registrations kept       *)
(* ------------------------------------------------------------------ *)

OrderClasses == {"Object", "Dog"}

Elements(seq) == {seq[i] : i \in 1..Len(seq)}

\* what the call just made does to the two histories of the order
TrackOrder ==
    LET o == last'.object_name
        n == last'.program_name
    IN  CASE last'.op \in {"put", "replace"} /\ ret'
                /\ <<o, n>> \notin DOMAIN registered ->
                /\ putOrder' = [putOrder EXCEPT ![o] = Append(@, n)]
                /\ firstPut' = [firstPut EXCEPT ![o] =
                                   IF n \in Elements(@) THEN @ ELSE Append(@, n)]
          [] last'.op = "delete" ->
                /\ putOrder' = [putOrder EXCEPT ![o] =
                                   SelectSeq(@, LAMBDA x : x # n)]
                /\ UNCHANGED firstPut
          [] last'.op = "purge" ->
                /\ putOrder' = [putOrder EXCEPT ![o] = <<>>]
                /\ UNCHANGED firstPut
          [] OTHER -> UNCHANGED <<putOrder, firstPut>>

NextOrder ==
    \/ \E o \in OrderClasses : \E n \in NamesOf(o), p \in Programs :
            Put(o, n, p) /\ TrackOrder /\ UNCHANGED <<vmvars, libvars>>
    \/ \E o \in OrderClasses : \E n \in NamesOf(o), p \in Programs :
            Replace(o, n, p) /\ TrackOrder /\ UNCHANGED <<vmvars, libvars>>
    \/ \E o \in OrderClasses : \E n \in NamesOf(o) :
            Delete(o, n) /\ TrackOrder /\ UNCHANGED <<vmvars, libvars>>
    \/ \E o \in OrderClasses : Purge(o) /\ TrackOrder /\ UNCHANGED <<vmvars, libvars>>
    \/ \E o \in OrderClasses : Foreach(o) /\ TrackOrder /\ UNCHANGED <<vmvars, libvars>>
    \/ \E o \in OrderClasses : ForeachEx(o) /\ TrackOrder /\ UNCHANGED <<vmvars, libvars>>

SpecOrder == Init /\ [][NextOrder]_vars

(* ------------------------------------------------------------------ *)
(* The calls on pairs of strings taken both ways round: the pool does  *)
(* not tell object names from program names                            *)
(* ------------------------------------------------------------------ *)

SigStrings == {"Dog", "greet"}

NextSig ==
    \/ \E o \in SigStrings, n \in SigStrings, p \in Programs :
            Put(o, n, p) /\ UNCHANGED <<putOrder, firstPut, vmvars, libvars>>
    \/ \E o \in SigStrings, n \in SigStrings, p \in Programs :
            Replace(o, n, p) /\ UNCHANGED <<putOrder, firstPut, vmvars, libvars>>
    \/ \E o \in SigStrings, n \in SigStrings :
            Delete(o, n) /\ UNCHANGED <<putOrder, firstPut, vmvars, libvars>>

SpecSig == Init /\ [][NextSig]_vars

(* ------------------------------------------------------------------ *)
(* The calls that register and remove, on an object with three         *)
(* functions and the base                                              *)
(* ------------------------------------------------------------------ *)

LocalNames == {"greet", "toString", "update"}

LocalClasses == {"Object", "Dog"}

LocalNamesOf(object_name) == IF object_name = "Dog" THEN LocalNames ELSE {"greet"}

NextLocal ==
    \/ \E o \in LocalClasses : \E n \in LocalNamesOf(o), p \in Programs :
            Put(o, n, p) /\ UNCHANGED <<putOrder, firstPut, vmvars, libvars>>
    \/ \E o \in LocalClasses : \E n \in LocalNamesOf(o) :
            Delete(o, n) /\ UNCHANGED <<putOrder, firstPut, vmvars, libvars>>
    \/ \E o \in LocalClasses :
            Purge(o) /\ UNCHANGED <<putOrder, firstPut, vmvars, libvars>>

SpecLocal == Init /\ [][NextLocal]_vars

(* ------------------------------------------------------------------ *)
(* The virtual machine (runtime/vm.c) and the object manager it drives  *)
(* ------------------------------------------------------------------ *)

\* how many objects the object manager is made to hold at most
MaxObjects == 3

\* how many traversals the object manager may let a killed object live on
MaxDelay == 1

\* the program pool and its histories
poolvars == <<hash, meta, destroyed, status, last, ret, visited, freed,
              registered, handed, putOrder, firstPut>>

\* surgescript_objectmanager_root(): the handle the object manager gives to
\* the first object it spawns
surgescript_objectmanager_root == 1

surgescript_objectmanager_exists(om, handle) == handle \in DOMAIN om

\* the handle surgescript_objectmanager_spawn gives the new object: handles
\* are given out in increasing order
new_handle(om) ==
    IF DOMAIN om = {} THEN surgescript_objectmanager_root
    ELSE 1 + CHOOSE h \in DOMAIN om : \A g \in DOMAIN om : g <= h

\* surgescript_objectmanager_spawn(manager, object_name, user_data, on_init,
\* on_release): a new object without parent
surgescript_objectmanager_spawn(om) == om @@ (new_handle(om) :> NULL)

\* surgescript_object_add_child(parent, child_handle)
surgescript_object_add_child(om, parent, child_handle) ==
    [om EXCEPT ![child_handle] = parent]

\* surgescript_object_kill(object): the object is marked, nothing is removed
surgescript_object_kill(k, object) ==
    IF object \in DOMAIN k THEN k ELSE k @@ (object :> 0)

\* the objects of the tree under object, each once, parents first
RECURSIVE visit_tree(_, _)
RECURSIVE visit_children(_, _)
visit_tree(om, object) ==
    <<object>> \o visit_children(om, {c \in DOMAIN om : om[c] = object})

visit_children(om, children) ==
    IF children = {} THEN <<>>
    ELSE LET c == CHOOSE x \in children : \A y \in children : x <= y
         IN  visit_tree(om, c) \o visit_children(om, children \ {c})

\* surgescript_object_traverse_tree(root, surgescript_object_update): the
\* outcomes of one traversal.  The update of a killed root may have the
\* object manager remove it, and its tree with it, in this traversal, or
\* let it live on for at most MaxDelay traversals; otherwise the update of
\* every object of the tree is called once.
surgescript_object_traverse_tree(om, k, root) ==
    LET removed == [om |-> <<>>, is_killed |-> <<>>, traversed |-> <<root>>]
        kept    == [om |-> om,
                    is_killed |-> [o \in DOMAIN k |-> k[o] + 1],
                    traversed |-> visit_tree(om, root)]
    IN  IF root \in DOMAIN k
        THEN IF k[root] < MaxDelay THEN {removed, kept} ELSE {removed}
        ELSE {kept}

\* surgescript_vm_root_object(vm): the root object, NULL if it is gone
surgescript_vm_root_object(om) ==
    IF surgescript_objectmanager_exists(om, surgescript_objectmanager_root)
    THEN surgescript_objectmanager_root
    ELSE NULL

surgescript_vm_is_active(om) ==
    surgescript_objectmanager_exists(om, surgescript_objectmanager_root)

\* mutant: launch spawns nothing
surgescript_vm_launch_nothing(om) == om

surgescript_vm_launch(om) == surgescript_objectmanager_spawn(om)

\* mutant: the tree is traversed whether the root exists or not
surgescript_vm_update_unguarded(om, k) ==
    {[om |-> out.om, is_killed |-> out.is_killed,
      ret |-> surgescript_vm_is_active(out.om),
      traversed |-> out.traversed, ticks |-> 1] :
        out \in surgescript_object_traverse_tree(om, k, surgescript_vm_root_object(om))}

\* mutant: what is returned is the activity found before the traversal
surgescript_vm_update_stale(om, k) ==
    IF surgescript_vm_is_active(om)
    THEN {[om |-> out.om, is_killed |-> out.is_killed,
           ret |-> surgescript_vm_is_active(om),
           traversed |-> out.traversed, ticks |-> 1] :
             out \in surgescript_object_traverse_tree(om, k, surgescript_vm_root_object(om))}
    ELSE {[om |-> om, is_killed |-> k, ret |-> FALSE, traversed |-> <<>>, ticks |-> 0]}

\* surgescript_vm_update(vm): the outcomes of the call, each with what the
\* call returns, the objects whose update it called and the traversals made
surgescript_vm_update(om, k) ==
    IF surgescript_vm_is_active(om)
    THEN {[om |-> out.om, is_killed |-> out.is_killed,
           ret |-> surgescript_vm_is_active(out.om),
           traversed |-> out.traversed, ticks |-> 1] :
             out \in surgescript_object_traverse_tree(om, k, surgescript_vm_root_object(om))}
    ELSE {[om |-> om, is_killed |-> k, ret |-> FALSE, traversed |-> <<>>, ticks |-> 0]}

\* mutant: kill sends no signal
surgescript_vm_kill_nothing(om, k) == [om |-> om, is_killed |-> k]

\* mutant: kill removes the root and its tree at once
surgescript_vm_kill_removes(om, k) == [om |-> <<>>, is_killed |-> <<>>]

surgescript_vm_kill(om, k) ==
    [om |-> om,
     is_killed |-> surgescript_object_kill(k, surgescript_vm_root_object(om))]

\* the parent is given its child after the object manager spawned it
surgescript_vm_spawn_object(om, parent) ==
    LET child_handle == new_handle(om)
    IN  surgescript_object_add_child(surgescript_objectmanager_spawn(om),
                                     parent, child_handle)

\* one of surgescript_objectmanager_destroy, surgescript_programpool_destroy
\* and surgescript_stack_destroy: the part is gone afterwards, and the log
\* keeps which parts existed when the call was made
destroy_part(parts, part) ==
    [parts EXCEPT ![part] = FALSE,
                  !.log = Append(@, [part |-> part,
                                     object_manager |-> parts.object_manager,
                                     program_pool |-> parts.program_pool,
                                     stack |-> parts.stack])]

\* mutant: the program pool goes first
surgescript_vm_destroy_pool_first(parts) ==
    destroy_part(destroy_part(destroy_part(parts, "program_pool"),
                              "object_manager"), "stack")

surgescript_vm_destroy(parts) ==
    destroy_part(destroy_part(destroy_part(parts, "object_manager"),
                              "program_pool"), "stack")

\* the three parts surgescript_vm_create made, all in existence
vm_parts == [object_manager |-> TRUE, program_pool |-> TRUE, stack |-> TRUE,
             log |-> <<>>]

\* Calls on the virtual machine are made while the process runs and the
\* virtual machine exists.

Launch ==
    /\ status = "running"
    /\ vmState = "created"
    /\ object_manager' = surgescript_vm_launch(object_manager)
    /\ vmState' = "launched"
    /\ vmLast' = VMCall("launch", TRUE, <<>>, 0)
    /\ UNCHANGED <<is_killed, released, cprograms, poolvars, libvars>>

Update ==
    /\ status = "running"
    /\ vmState = "launched"
    /\ \E out \in surgescript_vm_update(object_manager, is_killed) :
          /\ object_manager' = out.om
          /\ is_killed' = out.is_killed
          /\ vmLast' = VMCall("update", out.ret, out.traversed, out.ticks)
    /\ UNCHANGED <<vmState, released, cprograms, poolvars, libvars>>

\* kill is called while there is a root object to signal
Kill ==
    /\ status = "running"
    /\ vmState = "launched"
    /\ surgescript_vm_root_object(object_manager) # NULL
    /\ LET out == surgescript_vm_kill(object_manager, is_killed)
       IN  /\ object_manager' = out.om
           /\ is_killed' = out.is_killed
    /\ vmLast' = VMCall("kill", TRUE, <<>>, 0)
    /\ UNCHANGED <<vmState, released, cprograms, poolvars, libvars>>

SpawnObject(parent) ==
    /\ status = "running"
    /\ vmState = "launched"
    /\ surgescript_objectmanager_exists(object_manager, parent)
    /\ Cardinality(DOMAIN object_manager) < MaxObjects
    /\ object_manager' = surgescript_vm_spawn_object(object_manager, parent)
    /\ vmLast' = VMCall("spawn_object", TRUE, <<>>, 0)
    /\ UNCHANGED <<vmState, is_killed, released, cprograms, poolvars, libvars>>

\* the numbers of parameters the functions are bound with
NumParams == {0, 1}

\* surgescript_cprogram_create(num_params, cfun): a new program
surgescript_cprogram_create(made, cprogram, num_params) ==
    made @@ (cprogram :> num_params)

\* mutant: the program takes the place of the one registered, if any
surgescript_vm_bind_replacing(object_name, fun_name, cprogram) ==
    Replace(object_name, fun_name, cprogram)

\* the call surgescript_vm_bind makes on the program pool
surgescript_vm_bind(object_name, fun_name, cprogram) ==
    Put(object_name, fun_name, cprogram)

\* surgescript_vm_bind: the program is one surgescript_cprogram_create has
\* just made, and goes to surgescript_programpool_put
Bind(object_name, fun_name, num_params) ==
    /\ vmState \in {"created", "launched"}
    /\ \E cprogram \in Programs :
          /\ handed[cprogram] = 0
          /\ cprogram \notin DOMAIN cprograms
          /\ cprograms' = surgescript_cprogram_create(cprograms, cprogram, num_params)
          /\ surgescript_vm_bind(object_name, fun_name, cprogram)
    /\ vmLast' = VMCall("bind", TRUE, <<>>, 0)
    /\ UNCHANGED <<vmState, object_manager, is_killed, released, putOrder, firstPut,
                   libvars>>

\* surgescript_vm_destroy: the objects go with the object manager, the
\* programs with the program pool
VMDestroy ==
    /\ vmState \in {"created", "launched"}
    /\ Destroy
    /\ released' = surgescript_vm_destroy(vm_parts).log
    /\ object_manager' = <<>>
    /\ is_killed' = <<>>
    /\ vmState' = "destroyed"
    /\ vmLast' = VMCall("destroy", TRUE, <<>>, 0)
    /\ UNCHANGED <<putOrder, firstPut, cprograms, libvars>>

\* the functions bound in the model
BindClasses == {"Object", "Dog"}

NextVMLive ==
    \/ Launch
    \/ Update
    \/ Kill
    \/ \E parent \in 1..MaxObjects : SpawnObject(parent)
    \/ \E o \in BindClasses : \E n \in NamesOf(o), k \in NumParams : Bind(o, n, k)

NextVM ==
    \/ NextVMLive
    \/ VMDestroy

SpecVM == Init /\ [][NextVM]_vars

\* update is called again and again
SpecVMLive == Init /\ [][NextVMLive]_vars /\ WF_vars(Update)

(* ------------------------------------------------------------------ *)
(* Runtime environments (runtime/renv.h)                               *)
(* ------------------------------------------------------------------ *)

\* how many runtime environments exist at a time at most
MaxEnvs == 2

\* the addresses memory is allocated at, for the environments and for their
\* arrays of temporary variables
Addresses == 1..MaxEnvs

\* how many temporary variables an environment has
NumTmp == 2

\* the values of a temporary variable
TmpValues == {0, 1}

\* the objects that own an environment
Owners == {1, 2}

\* an array of temporary variables as the allocation leaves it: the
\* variables have not been given a value, any content may be found there
FreshTmp == [1..NumTmp -> TmpValues]

\* struct surgescript_renv_t
surgescript_renv_t(owner, stack, heap, program_pool, object_pool, tmp) ==
    [owner |-> owner, stack |-> stack, heap |-> heap,
     program_pool |-> program_pool, object_pool |-> object_pool, tmp |-> tmp]

\* the heap of an object, which the caller of create gives with the owner
HeapOf(owner) == <<"heap", owner>>

surgescript_renv_owner(renv) == renv.owner

surgescript_renv_stack(renv) == renv.stack

surgescript_renv_heap(renv) == renv.heap

surgescript_renv_programpool(renv) == renv.program_pool

surgescript_renv_objectpool(renv) == renv.object_pool

surgescript_renv_tmp(renv) == renv.tmp

\* surgescript_renv_create(owner, stack, heap, program_pool, object_pool),
\* with tmp the array it allocates
surgescript_renv_create(owner, stack, heap, program_pool, object_pool, tmp) ==
    surgescript_renv_t(owner, stack, heap, program_pool, object_pool, tmp)

\* mutant: the clone is a copy of the struct, pointer to the temporary
\* variables included
surgescript_renv_clone_shallow(renv, tmp) == renv

\* surgescript_renv_clone(runtime_environment), with tmp the array it
\* allocates: a clone "except for the temporary variables"
surgescript_renv_clone(renv, tmp) ==
    surgescript_renv_t(surgescript_renv_owner(renv), surgescript_renv_stack(renv),
                       surgescript_renv_heap(renv),
                       surgescript_renv_programpool(renv),
                       surgescript_renv_objectpool(renv), tmp)

RenvCall(op, env, from) == [op |-> op, env |-> env, from |-> from]

RenvCreate(owner) ==
    \E env \in Addresses \ DOMAIN renvs, tmp \in Addresses \ DOMAIN tmp_store,
       content \in FreshTmp :
        /\ renvs' = renvs @@ (env :> surgescript_renv_create(owner, "stack",
                                  HeapOf(owner), "program_pool", "object_pool", tmp))
        /\ tmp_store' = tmp_store @@ (tmp :> content)
        /\ renvLast' = RenvCall("create", env, NULL)
        /\ UNCHANGED <<poolvars, vmvars, array_heap, arrLast>>

RenvClone(from) ==
    /\ from \in DOMAIN renvs
    /\ \E env \in Addresses \ DOMAIN renvs, tmp \in Addresses \ DOMAIN tmp_store,
          content \in FreshTmp :
        /\ renvs' = renvs @@ (env :> surgescript_renv_clone(renvs[from], tmp))
        /\ tmp_store' = tmp_store @@ (tmp :> content)
        /\ renvLast' = RenvCall("clone", env, from)
        /\ UNCHANGED <<poolvars, vmvars, array_heap, arrLast>>

\* surgescript_renv_destroy: the array of temporary variables and the
\* environment are freed, what the environment refers to is not
RenvDestroy(env) ==
    /\ env \in DOMAIN renvs
    /\ renvs' = [e \in DOMAIN renvs \ {env} |-> renvs[e]]
    /\ tmp_store' = [t \in DOMAIN tmp_store \ {surgescript_renv_tmp(renvs[env])} |->
                        tmp_store[t]]
    /\ renvLast' = RenvCall("destroy", env, NULL)
    /\ UNCHANGED <<poolvars, vmvars, array_heap, arrLast>>

\* a program running in the environment gives a value to one of its
\* temporary variables
RenvWriteTmp(env, slot, value) ==
    /\ env \in DOMAIN renvs
    /\ surgescript_renv_tmp(renvs[env]) \in DOMAIN tmp_store
    /\ tmp_store' = [tmp_store EXCEPT ![surgescript_renv_tmp(renvs[env])][slot] = value]
    /\ renvLast' = RenvCall("write", env, NULL)
    /\ UNCHANGED <<renvs, poolvars, vmvars, array_heap, arrLast>>

NextRenv ==
    \/ \E owner \in Owners : RenvCreate(owner)
    \/ \E from \in Addresses : RenvClone(from)
    \/ \E env \in Addresses : RenvDestroy(env)
    \/ \E env \in Addresses, slot \in 1..NumTmp, value \in TmpValues :
            RenvWriteTmp(env, slot, value)

SpecRenv == Init /\ [][NextRenv]_vars

(* ------------------------------------------------------------------ *)
(* The Array object (runtime/sslib/array.c)                            *)
(*                                                                     *)
(* One Array object and its heap.  The heap and the variables in its   *)
(* cells are not part of runtime/sslib/array.c: the heap is taken as   *)
(* the specification describes it (cells are allocated at increasing   *)
(* addresses, and an address is given again only after the cell that   *)
(* was allocated last has been freed), a variable is a number, and a   *)
(* variable that has just been created holds null, written 0, which    *)
(* compares below every number an array is given.                      *)
(* ------------------------------------------------------------------ *)

\* the longest array an operation is started on
MaxLength == 3

\* the numbers given to the array are 1..MaxValue
MaxValue == 3

ArrayValues == 1..MaxValue

LENGTH_ADDR == 0

BASE_ADDR == 1

\* the slack of fun_set: an index is accepted below length + SET_SLACK
SET_SLACK == 1024

\* surgescript_var_create(): a null variable
surgescript_var_create == 0

\* surgescript_var_compare(): three-way
surgescript_var_compare(a, b) ==
    IF a < b THEN -1 ELSE IF a > b THEN 1 ELSE 0

\* surgescript_heap_malloc(): the address of the new cell, and the heap with
\* the new cell in it
malloc_ptr(heap) == heap.ptr

surgescript_heap_malloc(heap) ==
    [mem |-> (heap.ptr :> surgescript_var_create) @@ heap.mem,
     ptr |-> heap.ptr + 1]

\* surgescript_heap_free(): the cell is released; the address of the cell
\* allocated last is given again by the next allocation
surgescript_heap_free(heap, ptr) ==
    [mem |-> [a \in DOMAIN heap.mem \ {ptr} |-> heap.mem[a]],
     ptr |-> IF ptr + 1 = heap.ptr THEN ptr ELSE heap.ptr]

surgescript_heap_at(heap, ptr) == heap.mem[ptr]

\* surgescript_var_copy(surgescript_heap_at(heap, ptr), value) and
\* surgescript_var_set_number(surgescript_heap_at(heap, ptr), value)
surgescript_var_copy(heap, ptr, value) ==
    [heap EXCEPT !.mem[ptr] = value]

\* surgescript_var_swap() of the variables of two cells
surgescript_var_swap(heap, a, b) ==
    [heap EXCEPT !.mem[a] = heap.mem[b], !.mem[b] = heap.mem[a]]

ARRAY_LENGTH(heap) == surgescript_heap_at(heap, LENGTH_ADDR)

\* what a function of the array leaves: the heap, what it returns (<<>> for
\* NULL), whether its ssasserts held, whether it ended in ssfatal, and the
\* calls of partition() it made
ArrayResult(heap, r, asserted, fatal) ==
    [heap |-> heap, ret |-> r, asserted |-> asserted, fatal |-> fatal,
     partitions |-> <<>>]

fun_constructor(heap) ==
    LET length_addr == malloc_ptr(heap)
        h1 == surgescript_heap_malloc(heap)
        h2 == surgescript_var_copy(h1, length_addr, 0)
    IN  ArrayResult(h2, <<"handle">>, length_addr = LENGTH_ADDR, FALSE)

fun_length(heap) ==
    ArrayResult(heap, <<surgescript_heap_at(heap, LENGTH_ADDR)>>, TRUE, FALSE)

fun_get(heap, index) ==
    IF index >= 0 /\ index < ARRAY_LENGTH(heap)
    THEN ArrayResult(heap, <<surgescript_heap_at(heap, BASE_ADDR + index)>>,
                     TRUE, FALSE)
    ELSE ArrayResult(heap, <<>>, TRUE, TRUE)

\* one turn of the loop of fun_set that creates memory addresses as needed,
\* entered with the given length
set_grow_once(g, length) ==
    LET ptr == malloc_ptr(g.heap)
        h1 == surgescript_heap_malloc(g.heap)
        h2 == surgescript_var_copy(h1, LENGTH_ADDR, length + 1)
    IN  [heap |-> h2,
         asserted |-> g.asserted /\ ptr = BASE_ADDR + ((length + 1) - 1)]

\* while(index >= length) of fun_set: the turns entered with the lengths
\* from .. to, one after the other; a failed ssassert ends the loop
RECURSIVE set_grow(_, _, _)
set_grow(g, from, to) ==
    IF from > to THEN g
    ELSE IF from = to THEN set_grow_once(g, from)
    ELSE LET mid == (from + to) \div 2
             left == set_grow(g, from, mid)
         IN  IF left.asserted THEN set_grow(left, mid + 1, to) ELSE left

\* a fun_set that accepts no index beyond the end of the array
fun_set_within(heap, index, value) ==
    IF index < 0 \/ index >= ARRAY_LENGTH(heap)
    THEN ArrayResult(heap, <<value>>, TRUE, TRUE)
    ELSE ArrayResult(surgescript_var_copy(heap, BASE_ADDR + index, value),
                     <<value>>, TRUE, FALSE)

fun_set(heap, index, value) ==
    LET length == ARRAY_LENGTH(heap)
    IN  IF index < 0 \/ index >= length + SET_SLACK
        THEN ArrayResult(heap, <<value>>, TRUE, TRUE)
        ELSE LET g == set_grow([heap |-> heap, asserted |-> TRUE], length, index)
             IN  ArrayResult(surgescript_var_copy(g.heap, BASE_ADDR + index, value),
                             <<value>>, g.asserted, FALSE)

fun_push(heap, value) ==
    LET length == ARRAY_LENGTH(heap)
        ptr == malloc_ptr(heap)
        h1 == surgescript_heap_malloc(heap)
        h2 == surgescript_var_copy(h1, ptr, value)
        h3 == surgescript_var_copy(h2, LENGTH_ADDR, length + 1)
    IN  ArrayResult(h3, <<>>, ptr = BASE_ADDR + ((length + 1) - 1), FALSE)

\* a fun_pop that takes the last element off and keeps its cell
fun_pop_keeping_cell(heap) ==
    LET length == ARRAY_LENGTH(heap)
    IN  IF length > 0
        THEN LET value == surgescript_heap_at(heap, BASE_ADDR + (length - 1))
                 h1 == surgescript_var_copy(heap, LENGTH_ADDR, length - 1)
             IN  ArrayResult(h1, <<value>>, TRUE, FALSE)
        ELSE ArrayResult(heap, <<>>, TRUE, FALSE)

fun_pop(heap) ==
    LET length == ARRAY_LENGTH(heap)
    IN  IF length > 0
        THEN LET value == surgescript_heap_at(heap, BASE_ADDR + (length - 1))
                 h1 == surgescript_var_copy(heap, LENGTH_ADDR, length - 1)
                 h2 == surgescript_heap_free(h1, BASE_ADDR + (length - 1))
             IN  ArrayResult(h2, <<value>>, TRUE, FALSE)
        ELSE ArrayResult(heap, <<>>, TRUE, FALSE)

\* for(int i = 0; i < length - 1; i++) of fun_shift
RECURSIVE shift_loop(_, _, _)
shift_loop(heap, i, length) ==
    IF i < length - 1
    THEN shift_loop(surgescript_var_copy(heap, BASE_ADDR + i,
                        surgescript_heap_at(heap, BASE_ADDR + (i + 1))),
                    i + 1, length)
    ELSE heap

\* a fun_shift that returns the first element and leaves the others in place
fun_shift_in_place(heap) ==
    LET length == ARRAY_LENGTH(heap)
    IN  IF length > 0
        THEN LET value == surgescript_heap_at(heap, BASE_ADDR + 0)
                 h2 == surgescript_var_copy(heap, LENGTH_ADDR, length - 1)
                 h3 == surgescript_heap_free(h2, BASE_ADDR + (length - 1))
             IN  ArrayResult(h3, <<value>>, TRUE, FALSE)
        ELSE ArrayResult(heap, <<>>, TRUE, FALSE)

fun_shift(heap) ==
    LET length == ARRAY_LENGTH(heap)
    IN  IF length > 0
        THEN LET value == surgescript_heap_at(heap, BASE_ADDR + 0)
                 h1 == shift_loop(heap, 0, length)
                 h2 == surgescript_var_copy(h1, LENGTH_ADDR, length - 1)
                 h3 == surgescript_heap_free(h2, BASE_ADDR + (length - 1))
             IN  ArrayResult(h3, <<value>>, TRUE, FALSE)
        ELSE ArrayResult(heap, <<>>, TRUE, FALSE)

\* for(int i = length - 1; i > 0; i--) of fun_unshift
RECURSIVE unshift_loop(_, _)
unshift_loop(heap, i) ==
    IF i > 0
    THEN unshift_loop(surgescript_var_copy(heap, BASE_ADDR + i,
                          surgescript_heap_at(heap, BASE_ADDR + (i - 1))),
                      i - 1)
    ELSE heap

fun_unshift(heap, value) ==
    LET length == ARRAY_LENGTH(heap)
        ptr == malloc_ptr(heap)
        h1 == surgescript_heap_malloc(heap)
        h2 == surgescript_var_copy(h1, LENGTH_ADDR, length + 1)
        h3 == unshift_loop(h2, (length + 1) - 1)
        h4 == surgescript_var_copy(h3, BASE_ADDR + 0, value)
    IN  ArrayResult(h4, <<>>, ptr = BASE_ADDR + ((length + 1) - 1), FALSE)

\* for(int i = 0; i < length / 2; i++) of fun_reverse
RECURSIVE reverse_loop(_, _, _)
reverse_loop(heap, i, length) ==
    IF i < length \div 2
    THEN reverse_loop(surgescript_var_swap(heap, BASE_ADDR + i,
                                           BASE_ADDR + (length - 1 - i)),
                      i + 1, length)
    ELSE heap

fun_reverse(heap) ==
    ArrayResult(reverse_loop(heap, 0, ARRAY_LENGTH(heap)), <<>>, TRUE, FALSE)

\* for(int i = 0; i < length; i++) of fun_indexof
RECURSIVE indexof_loop(_, _, _, _)
indexof_loop(haystack, needle, i, length) ==
    IF i < length
    THEN IF surgescript_var_compare(
                surgescript_heap_at(haystack, BASE_ADDR + i), needle) = 0
         THEN i
         ELSE indexof_loop(haystack, needle, i + 1, length)
    ELSE -1

fun_indexof(haystack, needle) ==
    ArrayResult(haystack,
                <<indexof_loop(haystack, needle, 0, ARRAY_LENGTH(haystack))>>,
                TRUE, FALSE)

\* med3(): the cell, of three, that holds the median
med3(heap, a, b, c) ==
    LET ab == surgescript_var_compare(heap.mem[a], heap.mem[b])
        bc == surgescript_var_compare(heap.mem[b], heap.mem[c])
        ac == surgescript_var_compare(heap.mem[a], heap.mem[c])
    IN  IF ab >= 0 /\ ac >= 0
        THEN (IF bc >= 0 THEN b ELSE c)
        ELSE IF ab <= 0 /\ bc >= 0
        THEN (IF ac >= 0 THEN a ELSE c)
        ELSE (IF ab >= 0 THEN a ELSE b)

\* a loop of partition() that leaves what equals the pivot on its right
RECURSIVE partition_loop_strict(_, _, _, _)
partition_loop_strict(heap, i, p, end) ==
    IF i <= end - 1
    THEN IF surgescript_var_compare(surgescript_heap_at(heap, i),
                                    surgescript_heap_at(heap, end)) < 0
         THEN partition_loop_strict(surgescript_var_swap(heap, i, p),
                                    i + 1, p + 1, end)
         ELSE partition_loop_strict(heap, i + 1, p, end)
    ELSE [heap |-> surgescript_var_swap(heap, p, end), p |-> p]

\* for(surgescript_heapptr_t i = begin; i <= end - 1; i++) of partition();
\* the pivot is the variable of the cell at end
RECURSIVE partition_loop(_, _, _, _)
partition_loop(heap, i, p, end) ==
    IF i <= end - 1
    THEN IF surgescript_var_compare(surgescript_heap_at(heap, i),
                                    surgescript_heap_at(heap, end)) <= 0
         THEN partition_loop(surgescript_var_swap(heap, i, p), i + 1, p + 1, end)
         ELSE partition_loop(heap, i + 1, p, end)
    ELSE [heap |-> surgescript_var_swap(heap, p, end), p |-> p]

partition(heap, begin, end) ==
    LET h1 == surgescript_var_swap(heap, end,
                  med3(heap, begin, begin + ((end - begin) \div 2), end))
    IN  partition_loop(h1, begin, begin, end)

\* quicksort(): the heap it leaves and, in the order they were made, the
\* calls of partition(): the range, the cell returned and the heap left
RECURSIVE quicksort(_, _, _)
quicksort(heap, begin, end) ==
    IF begin < end
    THEN LET r == partition(heap, begin, end)
             lo == quicksort(r.heap, begin, r.p - 1)
             hi == quicksort(lo.heap, r.p + 1, end)
         IN  [heap |-> hi.heap,
              partitions |-> <<[begin |-> begin, end |-> end, p |-> r.p,
                                mem |-> r.heap.mem]>>
                             \o lo.partitions \o hi.partitions]
    ELSE [heap |-> heap, partitions |-> <<>>]

fun_sort(heap) ==
    LET q == quicksort(heap, BASE_ADDR, BASE_ADDR + ARRAY_LENGTH(heap) - 1)
    IN  [ArrayResult(q.heap, <<>>, TRUE, FALSE) EXCEPT
            !.partitions = q.partitions]

\* the elements of the array, in the order of their indices
ArrayElements(heap) ==
    [i \in 1..ARRAY_LENGTH(heap) |-> heap.mem[BASE_ADDR + (i - 1)]]

\* the indices fun_get is called with: around the elements, and around the
\* end of the slack of fun_set
Indices(heap) ==
    (-1 .. ARRAY_LENGTH(heap) + 1)
        \cup {ARRAY_LENGTH(heap) + SET_SLACK - 1, ARRAY_LENGTH(heap) + SET_SLACK}

\* the indices fun_set is called with: the same, the last index of the slack
\* on an array of at most one element only
SetIndices(heap) ==
    (-1 .. ARRAY_LENGTH(heap) + 1)
        \cup {ARRAY_LENGTH(heap) + SET_SLACK}
        \cup (IF ARRAY_LENGTH(heap) <= 1
              THEN {ARRAY_LENGTH(heap) + SET_SLACK - 1} ELSE {})

\* the cell a call freed: the last one, by fun_pop and fun_shift on an array
\* that is not empty
FreedBy(call) ==
    IF call.op \in {"pop", "shift"} /\ call.length > 0
    THEN {BASE_ADDR + (call.length - 1)} ELSE {}

\* a call of a function of the Array object: ssfatal and a failed ssassert
\* end the process
ArrayCall(op, index, value, r) ==
    /\ status = "running"
    /\ array_heap' = r.heap
    /\ status' = IF r.fatal \/ ~r.asserted THEN "fatal" ELSE status
    /\ arrLast' = [op |-> op, index |-> index, value |-> value, ret |-> r.ret,
                   length |-> IF LENGTH_ADDR \in DOMAIN array_heap.mem
                              THEN ARRAY_LENGTH(array_heap) ELSE 0,
                   elements |-> IF LENGTH_ADDR \in DOMAIN array_heap.mem
                                THEN ArrayElements(array_heap) ELSE <<>>,
                   asserted |-> r.asserted, partitions |-> r.partitions,
                   reused |-> (DOMAIN r.heap.mem \ DOMAIN array_heap.mem)
                                \cap FreedBy(arrLast) # {},
                   undoes |-> op = "shift" /\ arrLast.op = "unshift"]
    /\ UNCHANGED <<hash, meta, destroyed, last, ret, visited, freed,
                   registered, handed, putOrder, firstPut, vmvars, envvars>>

\* the object has been constructed and is no longer than MaxLength
Constructed ==
    /\ LENGTH_ADDR \in DOMAIN array_heap.mem
    /\ ARRAY_LENGTH(array_heap) <= MaxLength

Constructor ==
    /\ DOMAIN array_heap.mem = {}
    /\ ArrayCall("__constructor", 0, 0, fun_constructor(array_heap))

Length ==
    /\ Constructed
    /\ ArrayCall("length", 0, 0, fun_length(array_heap))

Get(index) ==
    /\ Constructed
    /\ index \in Indices(array_heap)
    /\ ArrayCall("get", index, 0, fun_get(array_heap, index))

Set(index, value) ==
    /\ Constructed
    /\ index \in SetIndices(array_heap)
    /\ ArrayCall("set", index, value, fun_set(array_heap, index, value))

Push(value) ==
    /\ Constructed
    /\ ArrayCall("push", 0, value, fun_push(array_heap, value))

Pop ==
    /\ Constructed
    /\ ArrayCall("pop", 0, 0, fun_pop(array_heap))

Shift ==
    /\ Constructed
    /\ ArrayCall("shift", 0, 0, fun_shift(array_heap))

Unshift(value) ==
    /\ Constructed
    /\ ArrayCall("unshift", 0, value, fun_unshift(array_heap, value))

Sort ==
    /\ Constructed
    /\ ArrayCall("sort", 0, 0, fun_sort(array_heap))

Reverse ==
    /\ Constructed
    /\ ArrayCall("reverse", 0, 0, fun_reverse(array_heap))

IndexOf(value) ==
    /\ Constructed
    /\ ArrayCall("indexOf", 0, value, fun_indexof(array_heap, value))

AllIndices == (-1 .. MaxLength + 1) \cup (SET_SLACK - 1 .. MaxLength + SET_SLACK)

NextArray ==
    \/ Constructor
    \/ Length
    \/ \E index \in AllIndices : Get(index)
    \/ \E index \in AllIndices, value \in ArrayValues : Set(index, value)
    \/ \E value \in ArrayValues : Push(value)
    \/ Pop
    \/ Shift
    \/ \E value \in ArrayValues : Unshift(value)
    \/ Sort
    \/ Reverse
    \/ \E value \in ArrayValues : IndexOf(value)

SpecArray == Init /\ [][NextArray]_vars

(* ------------------------------------------------------------------ *)
(* Properties of the program pool                                      *)
(* ------------------------------------------------------------------ *)

\* the last call was made on (object_name, program_name)
LastOn(object_name, program_name) ==
    last.object_name = object_name /\ last.program_name = program_name

LastKey == <<last.object_name, last.program_name>>

\* the last call was a replace or delete of the pair, or a purge of its object
Touches(object_name, program_name) ==
    \/ last.op \in {"replace", "delete"} /\ LastOn(object_name, program_name)
    \/ last.op = "purge" /\ last.object_name = object_name

\* how many hashpairs the table holds for the signature of the pair
EntriesFor(object_name, program_name) ==
    LET sig  == generate_signature(object_name, program_name)
        same == {item \in BagToSet(hash) : item.signature = sig}
    IN  BagCardinality([item \in same |-> hash[item]])

\* how often the name stands in the list of the object (0 without a list)
Occurrences(object_name, program_name) ==
    IF object_name \in DOMAIN meta
    THEN Cardinality({i \in 1..Len(meta[object_name]) :
                         meta[object_name][i] = program_name})
    ELSE 0

\* C1: right after a put that returned true, get(c, n) is the program put and
\* exists(c, n) holds; and as long as no replace or delete of (c, n) and no
\* purge of c has come (registered keeps the pair until then), get(c, n) is
\* still that program and exists(c, n) holds, whatever ("Object", n) holds and
\* whatever was called on other pairs.
C1_RoundTrip ==
    \A o \in Classes, n \in Names :
        /\ (last.op = "put" /\ ret /\ LastOn(o, n)) =>
              /\ <<o, n>> \in DOMAIN registered
              /\ registered[<<o, n>>] = last.program
        /\ <<o, n>> \in DOMAIN registered =>
              /\ surgescript_programpool_get(o, n) = registered[<<o, n>>]
              /\ surgescript_programpool_exists(o, n)

\* a put on "Dog" has just succeeded over a different program of "Object"
C1_Witness ==
    /\ last.op = "put" /\ ret
    /\ last.object_name = "Dog"
    /\ <<"Object", last.program_name>> \in DOMAIN registered
    /\ registered[<<"Object", last.program_name>>] # last.program
    /\ surgescript_programpool_get("Dog", last.program_name) = last.program

\* C2: get(c, n) is the program registered under exactly (c, n) if there is
\* one, otherwise the one registered under ("Object", n) if there is one,
\* otherwise NULL; what other objects register under n is never returned.
C2_SingleLevelFallback ==
    \A o \in Classes, n \in Names :
        surgescript_programpool_get(o, n) =
            IF <<o, n>> \in DOMAIN registered THEN registered[<<o, n>>]
            ELSE IF <<"Object", n>> \in DOMAIN registered
                 THEN registered[<<"Object", n>>]
                 ELSE NULL

\* all three cases at once: "Dog" has its own toString, which "Object" looked
\* up for toString does not get; "Cat" inherits greet from "Object"
C2_Witness ==
    /\ <<"Dog", "toString">> \in DOMAIN registered
    /\ <<"Object", "greet">> \in DOMAIN registered
    /\ <<"Cat", "greet">> \notin DOMAIN registered
    /\ <<"Dog", "greet">> \in DOMAIN registered
    /\ registered[<<"Dog", "greet">>] # registered[<<"Object", "greet">>]
    /\ surgescript_programpool_get("Dog", "toString") # NULL
    /\ surgescript_programpool_get("Object", "toString") = NULL
    /\ surgescript_programpool_get("Cat", "greet") = registered[<<"Object", "greet">>]

\* C3: a put on a pair that is registered ends in the fatal error within that
\* call, and leaves the hash table, the lists of names and the program of the
\* pair as they were.
C3_DuplicateRejected ==
    [][ \A o \in Classes, n \in Names :
            (last'.op = "put" /\ LastOn(o, n)' /\ <<o, n>> \in DOMAIN registered) =>
                /\ status' = "fatal"
                /\ ~ret'
                /\ hash' = hash
                /\ meta' = meta
                /\ EntriesFor(o, n)' = 1
                /\ surgescript_programpool_get(o, n)' = registered[<<o, n>>]
      ]_vars

\* the process has ended in a put of another program on a registered pair
C3_Witness ==
    /\ status = "fatal"
    /\ last.op = "put"
    /\ LastKey \in DOMAIN registered
    /\ registered[LastKey] # last.program
    /\ destroyed[last.program] = 0

\* C4: a replace never ends in the fatal error and returns true, whether the
\* pair was registered or not; afterwards get(c, n) is the program given, the
\* table holds one hashpair for the pair, and the program registered there
\* before, if any, went to surgescript_program_destroy in that call.
C4_ReplaceUpserts ==
    [][ \A o \in Classes, n \in Names :
            (last'.op = "replace" /\ LastOn(o, n)') =>
                /\ status' = "running"
                /\ ret'
                /\ surgescript_programpool_get(o, n)' = last'.program
                /\ EntriesFor(o, n)' = 1
                /\ <<o, n>> \in DOMAIN registered =>
                      /\ freed' = <<registered[<<o, n>>]>>
                      /\ destroyed'[registered[<<o, n>>]] >= 1
                /\ <<o, n>> \notin DOMAIN registered => freed' = <<>>
      ]_vars

\* a replace has just put a live program in the place of another one
C4_Witness ==
    /\ last.op = "replace"
    /\ Len(freed) = 1
    /\ freed[1] # last.program
    /\ destroyed[freed[1]] = 1
    /\ destroyed[last.program] = 0
    /\ surgescript_programpool_get(last.object_name, last.program_name) = last.program

\* C5: replace(c, n, p) made twice in a row leaves what the first call left:
\* the same tables, get(c, n) = p, and p not destroyed.
C5_ReplaceIdempotent ==
    [][ \A o \in Classes, n \in Names :
            (/\ last.op = "replace" /\ LastOn(o, n)
             /\ last'.op = "replace" /\ LastOn(o, n)'
             /\ last'.program = last.program) =>
                /\ hash' = hash
                /\ meta' = meta
                /\ surgescript_programpool_get(o, n)' = last.program
                /\ destroyed' = destroyed
                /\ destroyed'[last.program] = 0
      ]_vars

\* C6: shallowcheck(c, n) holds iff (c, n) itself is registered, and
\* exists(c, n) iff shallowcheck(c, n) or shallowcheck("Object", n); so a name
\* registered under "Object" only exists on c without being checked on c.
C6_ShallowCheckIsExact ==
    \A o \in Classes, n \in Names :
        /\ surgescript_programpool_shallowcheck(o, n) = (<<o, n>> \in DOMAIN registered)
        /\ surgescript_programpool_exists(o, n) =
              (\/ surgescript_programpool_shallowcheck(o, n)
               \/ surgescript_programpool_shallowcheck("Object", n))
        /\ (<<"Object", n>> \in DOMAIN registered /\ <<o, n>> \notin DOMAIN registered) =>
              /\ ~surgescript_programpool_shallowcheck(o, n)
              /\ surgescript_programpool_exists(o, n)

\* greet is inherited by "Dog", which has another function of its own
C6_Witness ==
    /\ <<"Object", "greet">> \in DOMAIN registered
    /\ <<"Dog", "greet">> \notin DOMAIN registered
    /\ <<"Dog", "toString">> \in DOMAIN registered
    /\ ~surgescript_programpool_shallowcheck("Dog", "greet")
    /\ surgescript_programpool_exists("Dog", "greet")
    /\ ~surgescript_programpool_exists("Object", "toString")

\* C7: with A registered under ("Object", n) and B under (c, n), c not
\* "Object", get(c, n) is B; a delete of (c, n) removes the hashpair of (c, n),
\* leaves the one of ("Object", n) alone, and get(c, n) is A afterwards.
C7_DeleteReexposesFallback ==
    [][ \A o \in Classes \ {"Object"}, n \in Names :
            (/\ last'.op = "delete" /\ LastOn(o, n)'
             /\ <<o, n>> \in DOMAIN registered
             /\ <<"Object", n>> \in DOMAIN registered) =>
                /\ surgescript_programpool_get(o, n) = registered[<<o, n>>]
                /\ EntriesFor(o, n)' = 0
                /\ ~surgescript_programpool_shallowcheck(o, n)'
                /\ EntriesFor("Object", n)' = 1
                /\ surgescript_programpool_get("Object", n)' = registered[<<"Object", n>>]
                /\ surgescript_programpool_get(o, n)' = registered[<<"Object", n>>]
      ]_vars

\* a delete on "Dog" has just destroyed B, and get gives the live A of "Object"
C7_Witness ==
    /\ last.op = "delete"
    /\ last.object_name = "Dog"
    /\ Len(freed) = 1
    /\ <<"Object", last.program_name>> \in DOMAIN registered
    /\ registered[<<"Object", last.program_name>>] # freed[1]
    /\ destroyed[registered[<<"Object", last.program_name>>]] = 0
    /\ surgescript_programpool_get("Dog", last.program_name)
            = registered[<<"Object", last.program_name>>]

\* C8: right after purge(c), is_compiled(c) is false, shallowcheck(c, n) is
\* false for every name, and get(c, n) is NULL unless c is not "Object" and
\* ("Object", n) is registered, in which case it is that program.
C8_PurgeComplete ==
    last.op = "purge" =>
        /\ ~surgescript_programpool_is_compiled(last.object_name)
        /\ \A n \in Names :
              /\ ~surgescript_programpool_shallowcheck(last.object_name, n)
              /\ EntriesFor(last.object_name, n) = 0
              /\ surgescript_programpool_get(last.object_name, n) =
                    IF last.object_name # "Object" /\ <<"Object", n>> \in DOMAIN registered
                    THEN registered[<<"Object", n>>]
                    ELSE NULL

\* a purge has just removed both functions of "Dog"; greet falls back
C8_Witness ==
    /\ last.op = "purge"
    /\ last.object_name = "Dog"
    /\ Len(freed) = 2
    /\ surgescript_programpool_get("Dog", "greet") # NULL
    /\ surgescript_programpool_get("Dog", "toString") = NULL

\* C9: in every state a name stands in the list of names of an object once if
\* the pair is in the hash table, and not at all otherwise.
C9_ClassIndexConsistent ==
    \A o \in Classes, n \in Names :
        Occurrences(o, n) = IF surgescript_programpool_shallowcheck(o, n) THEN 1 ELSE 0

\* after a replace of a registered function of "Dog", with two names listed,
\* while "Cat" has a list left empty by a delete
C9_Witness ==
    /\ last.op = "replace"
    /\ last.object_name = "Dog"
    /\ Len(freed) = 1
    /\ "Dog" \in DOMAIN meta
    /\ Len(meta["Dog"]) = 2
    /\ "Cat" \in DOMAIN meta
    /\ meta["Cat"] = <<>>

\* C10 as claimed: foreach and foreach_ex give the callback the names
\* registered under c, in the order in which they were first put under c.
C10_FirstPutOrder ==
    last.op \in {"foreach", "foreach_ex"} =>
        visited = SelectSeq(firstPut[last.object_name],
                      LAMBDA x : <<last.object_name, x>> \in DOMAIN registered)

\* C10 as amended: foreach and foreach_ex give the callback each name
\* registered under c once and no other name, in the order of the calls that
\* registered them (a put, or a replace of an unregistered pair; a replace of
\* a registered pair moves nothing, a delete or purge forgets the position);
\* an object without a list of names gets no callback.
C10_EnumerationOrder ==
    last.op \in {"foreach", "foreach_ex"} =>
        /\ visited = putOrder[last.object_name]
        /\ Elements(visited) = {n \in Names : <<last.object_name, n>> \in DOMAIN registered}
        /\ Len(visited) = Cardinality(Elements(visited))
        /\ last.object_name \notin DOMAIN meta => visited = <<>>

\* toString is enumerated before greet, which was put first, deleted and put again
C10_Witness ==
    /\ last.op = "foreach"
    /\ last.object_name = "Dog"
    /\ visited = <<"toString", "greet">>
    /\ firstPut["Dog"] = <<"greet", "toString">>

\* C11: is_compiled(c) holds iff some name is registered under exactly c: it
\* is false for an object without a list of names, true once a put or replace
\* has registered a name under c, false again when the deletes or a purge
\* have left no name under c (a list left empty by deletes included), and
\* what "Object" registers makes no difference to another object.
C11_IsCompiledExact ==
    \A o \in Classes :
        /\ surgescript_programpool_is_compiled(o) =
              (\E n \in Names : <<o, n>> \in DOMAIN registered)
        /\ o \notin DOMAIN meta => ~surgescript_programpool_is_compiled(o)
        /\ (o \in DOMAIN meta /\ meta[o] = <<>>) =>
              ~surgescript_programpool_is_compiled(o)

\* the delete of its only function has left "Cat" known but empty, while
\* "Object" has code that "Cat" inherits and "Dog" was never heard of
C11_Witness ==
    /\ last.op = "delete"
    /\ last.object_name = "Cat"
    /\ Len(freed) = 1
    /\ "Cat" \in DOMAIN meta
    /\ meta["Cat"] = <<>>
    /\ ~surgescript_programpool_is_compiled("Cat")
    /\ surgescript_programpool_is_compiled("Object")
    /\ surgescript_programpool_exists("Cat", "greet")
    /\ "Dog" \notin DOMAIN meta
    /\ ~surgescript_programpool_is_compiled("Dog")

\* what a call without effect leaves alone: the hash table, the lists of names
\* of all objects, the programs, and the process
PoolUntouched ==
    /\ hash' = hash
    /\ meta' = meta
    /\ destroyed' = destroyed
    /\ registered' = registered
    /\ freed' = <<>>
    /\ status' = "running"

\* C12: only a put on a registered pair ends in the fatal error; get of a name
\* registered neither under the object nor under "Object" is NULL; a delete of
\* a pair that is not registered, and a purge, foreach or foreach_ex of an
\* object without a list of names, return normally and leave the hash table
\* and the list of names of every object as they were (the enumerations
\* calling the callback on nothing).
C12_SoftAbsence ==
    [][ /\ status' = "fatal" => (last'.op = "put" /\ LastKey' \in DOMAIN registered)
        /\ \A o \in Classes, n \in Names :
              (<<o, n>> \notin DOMAIN registered' /\ <<"Object", n>> \notin DOMAIN registered')
                  => surgescript_programpool_get(o, n)' = NULL
        /\ (last'.op = "delete" /\ LastKey' \notin DOMAIN registered) => PoolUntouched
        /\ (last'.op \in {"purge", "foreach", "foreach_ex"}
                /\ last'.object_name \notin DOMAIN meta) =>
              (PoolUntouched /\ visited' = <<>>)
      ]_vars

\* greet, which nobody registers, has just been deleted from "Dog", whose
\* list holds toString; nothing was destroyed and get still finds nothing
C12_Witness ==
    /\ last.op = "delete"
    /\ LastKey = <<"Dog", "greet">>
    /\ freed = <<>>
    /\ status = "running"
    /\ "Dog" \in DOMAIN meta
    /\ meta["Dog"] = <<"toString">>
    /\ hash # EmptyBag
    /\ surgescript_programpool_get("Dog", "greet") = NULL

\* no program was handed to the pool in more than one call
HandedOnce == \A p \in Programs : handed[p] <= 1

\* the program went in by a put or replace that returned true
HandedIn(p) == handed[p] >= 1 /\ ~(status = "fatal" /\ last.program = p)

\* C13: as long as every program is handed to the pool in one call only, no
\* program is destroyed more than once and none that was never handed in; a
\* program handed in by a successful put or replace is either held by the
\* pool and live, or out of the pool and destroyed once; get never returns a
\* destroyed program; and after the pool is destroyed every such program is
\* destroyed once and no hashpair and no list of names is left.
C13_ProgramOwnership ==
    HandedOnce =>
        /\ \A p \in Programs :
              /\ destroyed[p] <= 1
              /\ destroyed[p] = 1 => HandedIn(p)
              /\ HandedIn(p) =>
                    \/ InPool(p) /\ destroyed[p] = 0
                    \/ ~InPool(p) /\ destroyed[p] = 1
        /\ \A o \in Classes, n \in Names :
              surgescript_programpool_get(o, n) # NULL =>
                  destroyed[surgescript_programpool_get(o, n)] = 0
        /\ status = "destroyed" =>
              /\ \A p \in Programs : HandedIn(p) => destroyed[p] = 1
              /\ BagToSet(hash) = {}
              /\ DOMAIN meta = {}
              /\ DOMAIN registered = {}

\* the pool was destroyed holding two programs, a third one having been
\* destroyed before by a replace, delete or purge: each is destroyed once
C13_Witness ==
    /\ status = "destroyed"
    /\ HandedOnce
    /\ Len(freed) = 2
    /\ \A p \in 1..3 : handed[p] = 1 /\ destroyed[p] = 1

IsActive == surgescript_vm_is_active(object_manager)

\* the root object is in the object manager
RootExists == surgescript_objectmanager_root \in DOMAIN object_manager

\* C15: once launched, the virtual machine is active iff the handle of the
\* root object resolves in the object manager; right after launch, before
\* any update, it is active, the root being the one object there is, without
\* parent.
C15_ActiveIffRootExists ==
    vmState = "launched" =>
        /\ IsActive = RootExists
        /\ vmLast.op = "launch" =>
              /\ IsActive
              /\ DOMAIN object_manager = {surgescript_objectmanager_root}
              /\ object_manager[surgescript_objectmanager_root] = NULL

\* launch has just returned: the virtual machine is active and no update
\* has been made
C15_Witness ==
    /\ vmState = "launched"
    /\ vmLast.op = "launch"
    /\ IsActive
    /\ hash # EmptyBag

\* C16: an update of a launched virtual machine that is not active returns
\* false, starts no traversal, calls the update of no object, and leaves the
\* virtual machine inactive and the object manager as it was.
C16_InactivityAbsorbing ==
    [][ (vmState = "launched" /\ ~IsActive /\ vmLast'.op = "update") =>
            /\ ~vmLast'.ret
            /\ vmLast'.ticks = 0
            /\ vmLast'.traversed = <<>>
            /\ ~IsActive'
            /\ object_manager' = object_manager
      ]_vars

\* an update has just been made on a virtual machine that was not active
C16_Witness ==
    /\ vmState = "launched"
    /\ vmLast.op = "update"
    /\ vmLast.ticks = 0
    /\ ~vmLast.ret
    /\ ~IsActive

\* C17: after kill on a launched, active virtual machine, with update called
\* again and again, an update returns false and the virtual machine is not
\* active (unless the fatal error of a bind ends the process first).
C17_KillTerminates ==
    (vmState = "launched" /\ vmLast.op = "kill") ~>
        \/ (vmLast.op = "update" /\ ~vmLast.ret /\ ~IsActive)
        \/ status = "fatal"

\* the update that removed the killed root has just returned false
C17_Witness ==
    /\ vmState = "launched"
    /\ vmLast.op = "update"
    /\ vmLast.ticks = 1
    /\ vmLast.traversed = <<surgescript_objectmanager_root>>
    /\ ~vmLast.ret
    /\ ~IsActive
    /\ status = "running"

\* C18: an update of an active virtual machine starts one traversal, from the
\* root: the update of no object is called twice, of no object that was not
\* in the tree, and of every object left in the tree once; what it returns is
\* the activity after the traversal, false when the traversal removed the
\* root.
C18_OneTickPerUpdate ==
    [][ (vmState = "launched" /\ IsActive /\ vmLast'.op = "update") =>
            /\ vmLast'.ticks = 1
            /\ Len(vmLast'.traversed) >= 1
            /\ vmLast'.traversed[1] = surgescript_objectmanager_root
            /\ Cardinality(Elements(vmLast'.traversed)) = Len(vmLast'.traversed)
            /\ Elements(vmLast'.traversed) \subseteq DOMAIN object_manager
            /\ DOMAIN object_manager' \subseteq Elements(vmLast'.traversed)
            /\ vmLast'.ret = IsActive'
            /\ ~RootExists' => ~vmLast'.ret
      ]_vars

\* a tick over a tree of three objects whose root is killed and lives on
C18_Witness ==
    /\ vmState = "launched"
    /\ vmLast.op = "update"
    /\ vmLast.ticks = 1
    /\ vmLast.ret
    /\ Len(vmLast.traversed) = 3
    /\ surgescript_objectmanager_root \in DOMAIN is_killed

\* C19: kill on an active virtual machine marks the root and removes nothing:
\* the virtual machine is active when kill returns, the objects and the
\* program pool are as they were; and objects leave the object manager in an
\* update or in the destruction of the virtual machine only.
C19_KillOnlySignals ==
    [][ /\ (vmState = "launched" /\ IsActive /\ vmLast'.op = "kill") =>
              /\ IsActive'
              /\ object_manager' = object_manager
              /\ surgescript_objectmanager_root \in DOMAIN is_killed'
              /\ UNCHANGED <<hash, meta, destroyed, status, registered>>
        /\ ~(DOMAIN object_manager \subseteq DOMAIN object_manager') =>
              vmLast'.op \in {"update", "destroy"}
      ]_vars

\* kill has just returned: three objects, functions bound, all still there
C19_Witness ==
    /\ vmState = "launched"
    /\ vmLast.op = "kill"
    /\ IsActive
    /\ surgescript_objectmanager_root \in DOMAIN is_killed
    /\ Cardinality(DOMAIN object_manager) = 3
    /\ hash # EmptyBag

\* C20: destroy releases the object manager, then the program pool, then the
\* stack; when the object manager is released, the program pool and the
\* stack still exist; nothing is released before destroy.
C20_TeardownOrder ==
    /\ vmState # "destroyed" => released = <<>>
    /\ vmState = "destroyed" =>
          /\ [i \in 1..Len(released) |-> released[i].part]
                = <<"object_manager", "program_pool", "stack">>
          /\ released[1].object_manager /\ released[1].program_pool /\ released[1].stack
          /\ ~released[2].object_manager /\ released[2].stack
          /\ ~released[3].object_manager /\ ~released[3].program_pool
          /\ status = "destroyed"
          /\ DOMAIN object_manager = {}

\* a launched virtual machine with bound functions has been destroyed
C20_Witness ==
    /\ vmState = "destroyed"
    /\ vmLast.op = "destroy"
    /\ Len(released) = 3
    /\ Len(freed) = 2

\* C21: a bind on a pair that is not registered returns with the process
\* running: get gives the program just made, which takes the number of
\* parameters given, and the name is appended to the list of the object; a
\* bind on a registered pair ends in the fatal error, and the hash table, the
\* lists and the program of the pair are as they were.
C21_BindIsPut ==
    [][ \A o \in Classes, n \in Names, k \in NumParams :
            (vmLast'.op = "bind" /\ LastOn(o, n)'
                /\ last'.program \in DOMAIN cprograms'
                /\ cprograms'[last'.program] = k) =>
              /\ last'.op = "put"
              /\ last'.program \notin DOMAIN cprograms
              /\ handed[last'.program] = 0
              /\ <<o, n>> \notin DOMAIN registered =>
                    /\ status' = "running"
                    /\ surgescript_programpool_get(o, n)' = last'.program
                    /\ cprograms'[surgescript_programpool_get(o, n)'] = k
                    /\ meta'[o] = Append(IF o \in DOMAIN meta THEN meta[o] ELSE <<>>, n)
                    /\ EntriesFor(o, n)' = 1
              /\ <<o, n>> \in DOMAIN registered =>
                    /\ status' = "fatal"
                    /\ hash' = hash
                    /\ meta' = meta
                    /\ surgescript_programpool_get(o, n)' = registered[<<o, n>>]
                    /\ destroyed' = destroyed
      ]_vars

\* a second function of "Dog" has just been bound, with one parameter, while
\* "Object" has the first one
C21_Witness ==
    /\ vmLast.op = "bind"
    /\ status = "running"
    /\ LastKey = <<"Dog", "toString">>
    /\ meta["Dog"] = <<"greet", "toString">>
    /\ cprograms[surgescript_programpool_get("Dog", "toString")] = 1
    /\ surgescript_programpool_get("Object", "greet") # NULL

(* ------------------------------------------------------------------ *)
(* Properties of the runtime environments                              *)
(* ------------------------------------------------------------------ *)

\* the temporary variables as seen through the environment at env
TmpThrough(env) == tmp_store[surgescript_renv_tmp(renvs[env])]

\* the five references an environment shares
SharedRefs(renv) ==
    <<surgescript_renv_owner(renv), surgescript_renv_stack(renv),
      surgescript_renv_heap(renv), surgescript_renv_programpool(renv),
      surgescript_renv_objectpool(renv)>>

\* C22: clone gives a new environment with the owner, stack, heap, program
\* pool and object pool of the one cloned and with an array of temporary
\* variables that no other environment has, leaving the one cloned and its
\* temporary variables as they were; a write to a temporary variable through
\* one environment changes the temporary variables seen through no other
\* environment, and changes the five references of no environment.
C22_CloneIsolation ==
    [][ /\ renvLast'.op = "clone" =>
              LET from == renvLast'.from
                  env  == renvLast'.env
              IN  /\ env \notin DOMAIN renvs
                  /\ env \in DOMAIN renvs'
                  /\ SharedRefs(renvs'[env]) = SharedRefs(renvs[from])
                  /\ \A other \in DOMAIN renvs :
                        /\ surgescript_renv_tmp(renvs'[env])
                               # surgescript_renv_tmp(renvs'[other])
                        /\ renvs'[other] = renvs[other]
                        /\ TmpThrough(other)' = TmpThrough(other)
        /\ renvLast'.op = "write" =>
              /\ \A other \in DOMAIN renvs \ {renvLast'.env} :
                    TmpThrough(other)' = TmpThrough(other)
              /\ \A any \in DOMAIN renvs :
                    /\ any \in DOMAIN renvs'
                    /\ SharedRefs(renvs'[any]) = SharedRefs(renvs[any])
      ]_vars

\* a write through a clone has just made its temporary variables differ
\* from those of the environment it was cloned from
C22_Witness ==
    /\ renvLast.op = "write"
    /\ DOMAIN renvs = {1, 2}
    /\ SharedRefs(renvs[1]) = SharedRefs(renvs[2])
    /\ surgescript_renv_tmp(renvs[1]) # surgescript_renv_tmp(renvs[2])
    /\ TmpThrough(1) # TmpThrough(2)

\* C23: a put on (c, n), c not "Object", with no program registered under
\* (c, n) itself, returns true and does not end in the fatal error, also when
\* ("Object", n) is registered and exists(c, n) held before the call;
\* afterwards get(c, n) is the program put and get("Object", n) is still the
\* program of "Object".
C23_OverrideIsNotDuplicate ==
    [][ \A o \in Classes \ {"Object"}, n \in Names :
            (last'.op = "put" /\ LastOn(o, n)' /\ <<o, n>> \notin DOMAIN registered) =>
                /\ ret'
                /\ status' = "running"
                /\ surgescript_programpool_get(o, n)' = last'.program
                /\ <<"Object", n>> \in DOMAIN registered =>
                      /\ surgescript_programpool_exists(o, n)
                      /\ surgescript_programpool_get(o, n) = registered[<<"Object", n>>]
                      /\ surgescript_programpool_get("Object", n)'
                             = registered[<<"Object", n>>]
                      /\ EntriesFor("Object", n)' = 1
      ]_vars

\* "Cat" has just been given a greet of its own over the one it inherited
C23_Witness ==
    /\ last.op = "put"
    /\ ret
    /\ status = "running"
    /\ LastKey = <<"Cat", "greet">>
    /\ <<"Object", "greet">> \in DOMAIN registered
    /\ surgescript_programpool_get("Cat", "greet") = last.program
    /\ surgescript_programpool_get("Object", "greet") # last.program
    /\ surgescript_programpool_get("Object", "greet") # NULL
    /\ destroyed[surgescript_programpool_get("Object", "greet")] = 0

\* the hashpair of the pair, NullPair if there is none
PairOf(object_name, program_name) ==
    HASH_FIND_ITEM_BY_SIGNATURE(hash, generate_signature(object_name, program_name))

\* the list of names of the object, if it has one
ListOf(object_name) ==
    IF object_name \in DOMAIN meta THEN <<meta[object_name]>> ELSE <<>>

\* C24: a purge of c and a delete of (c, n) leave every other object with
\* the hashpairs, the programs (none destroyed) and the list of names, in
\* content and order, it had; a delete of (c, n) also leaves the hashpairs
\* and programs of the other names of c, and the other names of the list of
\* c in the order they had.
C24_RemovalIsLocal ==
    [][ \A c \in LocalClasses :
            (last'.op \in {"purge", "delete"} /\ last'.object_name = c) =>
                /\ \A o \in Classes \ {c}, n \in LocalNames :
                      /\ PairOf(o, n)' = PairOf(o, n)
                      /\ EntriesFor(o, n)' = EntriesFor(o, n)
                      /\ PairOf(o, n) # NullPair =>
                            destroyed'[PairOf(o, n).program] = destroyed[PairOf(o, n).program]
                      /\ ListOf(o)' = ListOf(o)
                /\ last'.op = "delete" =>
                      /\ \A n \in LocalNames \ {last'.program_name} :
                            /\ PairOf(c, n)' = PairOf(c, n)
                            /\ PairOf(c, n) # NullPair =>
                                  destroyed'[PairOf(c, n).program]
                                      = destroyed[PairOf(c, n).program]
                      /\ c \in DOMAIN meta =>
                            /\ c \in DOMAIN meta'
                            /\ meta'[c] = SelectSeq(meta[c],
                                              LAMBDA x : x # last'.program_name)
                      /\ c \notin DOMAIN meta => c \notin DOMAIN meta'
      ]_vars

\* the second of the three functions of "Dog" has just been deleted: the
\* first and the third are left, in this order, with their programs live
C24_Witness ==
    /\ last.op = "delete"
    /\ last.object_name = "Dog"
    /\ Len(freed) = 1
    /\ "Dog" \in DOMAIN meta
    /\ Len(meta["Dog"]) = 2
    /\ last.program_name \notin {meta["Dog"][1], meta["Dog"][2]}
    /\ \A i \in 1..2 : /\ PairOf("Dog", meta["Dog"][i]) # NullPair
                       /\ destroyed[PairOf("Dog", meta["Dog"][i]).program] = 0

(* ------------------------------------------------------------------ *)
(* Properties of the Array object                                      *)
(* ------------------------------------------------------------------ *)

\* C25: after the constructor and any sequence of push, pop, shift, unshift
\* and set on one Array object, every ssassert of those functions has held:
\* the length is in cell 0 of the heap, every cell that was allocated got
\* the address 1 + (new length - 1), the allocated cells are exactly the
\* addresses 0..length, and the next allocation, after a pop or a shift
\* too, gives the address 1 + length.
C25_CellLayout ==
    /\ arrLast.asserted
    /\ arrLast.op # "none" =>
        /\ LENGTH_ADDR \in DOMAIN array_heap.mem
        /\ ARRAY_LENGTH(array_heap) \in Nat
        /\ DOMAIN array_heap.mem = 0 .. ARRAY_LENGTH(array_heap)
        /\ malloc_ptr(array_heap) = BASE_ADDR + ARRAY_LENGTH(array_heap)
    /\ arrLast.op \in {"push", "unshift"} =>
        /\ ARRAY_LENGTH(array_heap) = arrLast.length + 1
        /\ DOMAIN array_heap.mem \ (0 .. arrLast.length)
                = {BASE_ADDR + (ARRAY_LENGTH(array_heap) - 1)}

\* a push or an unshift on an array that is not empty has allocated the
\* cell that the pop or the shift before it had freed
C25_Witness ==
    /\ arrLast.op \in {"push", "unshift"}
    /\ arrLast.reused
    /\ arrLast.asserted
    /\ arrLast.length > 0

\* how often a value is among the elements of a sequence
CountOf(seq, v) == Cardinality({i \in 1..Len(seq) : seq[i] = v})

\* the postcondition of one call of partition():
\* heap[begin .. p-1] <= heap[p] < heap[p+1 .. end]
Partitioned(call) ==
    /\ call.begin <= call.p
    /\ call.p <= call.end
    /\ \A a \in call.begin .. call.p - 1 :
            surgescript_var_compare(call.mem[a], call.mem[call.p]) <= 0
    /\ \A a \in call.p + 1 .. call.end :
            surgescript_var_compare(call.mem[call.p], call.mem[a]) < 0

\* C26: on every array, of any length from 0 on, sort comes to an end, after
\* fewer calls of partition() than the array has elements, and leaves the
\* elements in non-decreasing order under the three-way compare, as a
\* permutation of the elements it found, with the length unchanged and no
\* cell allocated or freed; every call of partition() it made returned p
\* with heap[begin .. p-1] <= heap[p] < heap[p+1 .. end].
C26_SortSorts ==
    arrLast.op = "sort" =>
        LET elements == ArrayElements(array_heap)
        IN  /\ status = "running"
            /\ Len(arrLast.partitions) <= arrLast.length
            /\ arrLast.length > 0 => Len(arrLast.partitions) < arrLast.length
            /\ ARRAY_LENGTH(array_heap) = arrLast.length
            /\ DOMAIN array_heap.mem = 0 .. arrLast.length
            /\ \A i, j \in 1..Len(elements) :
                    i < j => surgescript_var_compare(elements[i], elements[j]) <= 0
            /\ \A v \in 0..MaxValue :
                    CountOf(elements, v) = CountOf(arrLast.elements, v)
            /\ \A k \in 1..Len(arrLast.partitions) :
                    Partitioned(arrLast.partitions[k])

\* sort has put in order an array of three elements or more that was not in
\* order and held one value twice, with more than one call of partition()
C26_Witness ==
    /\ arrLast.op = "sort"
    /\ arrLast.length >= 3
    /\ \E i, j \in 1..arrLast.length :
            i < j /\ arrLast.elements[i] > arrLast.elements[j]
    /\ \E i, j \in 1..arrLast.length :
            i < j /\ arrLast.elements[i] = arrLast.elements[j]
    /\ Len(arrLast.partitions) >= 2
    /\ ArrayElements(array_heap) # arrLast.elements

\* the elements a call has left at the indices the array had before it,
\* but for one index
SameBut(call, index) ==
    \A i \in 0 .. call.length - 1 :
        i # index =>
            surgescript_heap_at(array_heap, BASE_ADDR + i) = call.elements[i + 1]

\* C27: get(i) returns a copy of element i when 0 <= i < length and ends in
\* a fatal error otherwise, the array as it was; set(i, v) ends in a fatal
\* error when i < 0 or i >= length + 1024, the length and the elements as
\* they were; for length <= i < length + 1024 it grows the array to the
\* length i + 1; and whenever set accepts i, element i is v afterwards and
\* every other element the array had is unchanged.
C27_Bounds ==
    /\ arrLast.op = "get" =>
        /\ ARRAY_LENGTH(array_heap) = arrLast.length
        /\ ArrayElements(array_heap) = arrLast.elements
        /\ IF 0 <= arrLast.index /\ arrLast.index < arrLast.length
           THEN /\ status = "running"
                /\ arrLast.ret = <<arrLast.elements[arrLast.index + 1]>>
           ELSE status = "fatal"
    /\ arrLast.op = "set" =>
        IF arrLast.index < 0 \/ arrLast.index >= arrLast.length + 1024
        THEN /\ status = "fatal"
             /\ ARRAY_LENGTH(array_heap) = arrLast.length
             /\ ArrayElements(array_heap) = arrLast.elements
        ELSE /\ status = "running"
             /\ ARRAY_LENGTH(array_heap) =
                    IF arrLast.index >= arrLast.length
                    THEN arrLast.index + 1 ELSE arrLast.length
             /\ surgescript_heap_at(array_heap, BASE_ADDR + arrLast.index)
                    = arrLast.value
             /\ SameBut(arrLast, arrLast.index)

\* set has been given the last index of the slack on an array of one
\* element: the array has grown to that index and kept its element
C27_Witness ==
    /\ arrLast.op = "set"
    /\ arrLast.length = 1
    /\ arrLast.index = arrLast.length + 1023
    /\ status = "running"
    /\ ARRAY_LENGTH(array_heap) = 1025
    /\ surgescript_heap_at(array_heap, BASE_ADDR + 0) = arrLast.elements[1]
    /\ surgescript_heap_at(array_heap, BASE_ADDR + 1024) = arrLast.value

\* C28: unshift(v) makes the array one longer, puts v at index 0 and moves
\* every former element from index i to i + 1; shift on an array that is not
\* empty returns the element at index 0, makes the array one shorter and
\* moves every other element from index i to i - 1; shift and pop on an
\* empty array return nothing and change nothing; and a shift that follows
\* unshift(v) returns v and leaves the length and the elements the array
\* had before the unshift.
C28_ShiftUnshift ==
    [][/\ arrLast'.op = "unshift" =>
            /\ ARRAY_LENGTH(array_heap') = arrLast'.length + 1
            /\ surgescript_heap_at(array_heap', BASE_ADDR + 0) = arrLast'.value
            /\ \A i \in 0 .. arrLast'.length - 1 :
                    surgescript_heap_at(array_heap', BASE_ADDR + (i + 1))
                        = arrLast'.elements[i + 1]
       /\ (arrLast'.op = "shift" /\ arrLast'.length > 0) =>
            /\ arrLast'.ret = <<arrLast'.elements[1]>>
            /\ ARRAY_LENGTH(array_heap') = arrLast'.length - 1
            /\ \A i \in 1 .. arrLast'.length - 1 :
                    surgescript_heap_at(array_heap', BASE_ADDR + (i - 1))
                        = arrLast'.elements[i + 1]
       /\ (arrLast'.op \in {"shift", "pop"} /\ arrLast'.length = 0) =>
            /\ arrLast'.ret = <<>>
            /\ array_heap' = array_heap
            /\ ARRAY_LENGTH(array_heap') = 0
       /\ (arrLast.op = "unshift" /\ arrLast'.op = "shift") =>
            /\ arrLast'.ret = <<arrLast.value>>
            /\ ARRAY_LENGTH(array_heap') = arrLast.length
            /\ ArrayElements(array_heap') = arrLast.elements
            /\ DOMAIN array_heap'.mem = 0 .. arrLast.length
       /\ arrLast'.op \in {"unshift", "shift", "pop"} => status' = "running"
      ]_vars

\* a shift has followed an unshift on an array of two elements or more and
\* has returned the value the unshift was given
C28_Witness ==
    /\ arrLast.op = "shift"
    /\ arrLast.undoes
    /\ arrLast.length >= 3
    /\ arrLast.ret = <<arrLast.elements[1]>>
    /\ ARRAY_LENGTH(array_heap) = arrLast.length - 1
    /\ \E i \in 2 .. arrLast.length : arrLast.elements[i] # arrLast.elements[1]

====
